---- MODULE Spec2Model ----
(***************************************************************************)
(* A model of the PhysicsEngine facade of simple-physx: the engine object  *)
(* and its two resource tables (PhysicsEngine.h, PhysicsEngine.cpp), the   *)
(* fixed frequency scheduler (SimulateFixedFrequency) and the height-map   *)
(* conversion of CreateTerrain.  The PhysX SDK is a black box: whether one *)
(* of its calls succeeds is an input of the action that makes the call.    *)
(*                                                                         *)
(* Pointers are pairs <<kind, id>>; NULL is the null pointer and GARBAGE   *)
(* the value an out-of-range read of a vector delivers.  Undefined         *)
(* behaviour (a null dereference, an out-of-range vector access) is a      *)
(* choice between a crash and going on with an arbitrary value.            *)
(***************************************************************************)
EXTENDS Integers, Sequences, FiniteSets, TLC

\* ---------------------------------------------------------------- bounds
MaxMeshes == 2       \* longest mesh table
MaxCharacters == 2   \* longest controller table
MaxIndexCount == 4   \* longest index list given to CreatePhysicsTriangleMesh
\* The largest small handle a caller passes in: one past either table's end.
MaxHandle == IF MaxMeshes > MaxCharacters THEN MaxMeshes + 1 ELSE MaxCharacters + 1

\* (size_t)-1, the failure sentinel `return -1` of a size_t function.  The
\* value stands for 2^64-1: it is the largest integer TLC holds and is only
\* ever compared, never added to.
SIZE_MAX == 2147483647

NULL == <<"null", 0>>
GARBAGE == <<"garbage", 0>>
Obj(kind) == <<kind, 1>>

\* The SDK construction calls of Initialize, in the order the code makes them.
Calls == {"Foundation", "PVD", "Transport", "Physics", "Cooker", "Dispatcher",
          "GlobalScene", "CharacterManager", "DefaultMaterial"}

\* Handles a caller may pass: small ones and the failure sentinel.
Handles == (0 .. MaxHandle) \cup {SIZE_MAX}

VARIABLES
  debug,             \* the build defines _DEBUG
  phase,             \* "constructed", "initialized", "failed", "crashed", "destroyed"
  Foundation, PVD, Physics, Cooker, GlobalScene, Dispatcher,
  DefaultMaterial, CharacterManager,
  TriangleMeshes, Characters,
  pvdTransport,      \* what PVD->getTransport() returns
  acquired,          \* SDK objects the construction calls of Initialize returned
  releaseLog,        \* the release() calls made so far, in order
  issued,            \* <<handle, controller>> of every successful CreateCharacterController
  last,              \* what the last call did and returned
  \* scheduler
  now, start_time, started, ElapsedTime, steps, firstPoll, everyTick, pollFreq, sched,
  \* CreateTerrain
  SizeX, SizeY, MinZ, MaxZ, Heightmap, px_data,
  tx, ty,            \* the loop counters x and y
  tphase,            \* "idle", "loop", "cook", "returned_true", "returned_false", "crashed"
  inReads, outWrites \* the values of in_idx and of out_idx computed so far, in order

engineVars == <<debug, phase, Foundation, PVD, Physics, Cooker, GlobalScene, Dispatcher,
                DefaultMaterial, CharacterManager, TriangleMeshes, Characters,
                pvdTransport, acquired, releaseLog, issued, last>>
ptrVars == <<Foundation, PVD, Physics, Cooker, GlobalScene, Dispatcher,
             DefaultMaterial, CharacterManager, pvdTransport, acquired>>
clockVars == <<now, start_time, started, ElapsedTime, steps, firstPoll, everyTick,
               pollFreq, sched>>
terrainVars == <<SizeX, SizeY, MinZ, MaxZ, Heightmap, px_data, tx, ty, tphase,
                 inReads, outWrites>>
vars == <<engineVars, clockVars, terrainVars>>

\* The instance exists and has not crashed.
Alive == {"constructed", "initialized", "failed"}
\* Initialize has been called and has returned: main calls it first and goes
\* on whatever it returned, so the other operations run in both phases.
Used == {"initialized", "failed"}

\* The record every engine call leaves behind.
NoCall == [op |-> "none", arg |-> 0, size |-> 0, ret |-> "void", handle |-> 0,
           ptr |-> NULL, oob |-> FALSE, nullDeref |-> {}, failed |-> {},
           cooker |-> 0, statics |-> 0, sceneAdds |-> 0]

\* ------------------------------------------------------------ Initialize
\* The straight-line code of Initialize.  ok[c] says whether SDK call c
\* succeeds when it is made; crashAt names the dereference site (1: PVD
\* connect, 2: PxCreateControllerManager(*GlobalScene), 3: GlobalScene->
\* getScenePvdClient) at which a null dereference crashes, 0 for none.
InitFields == [Foundation |-> NULL, PVD |-> NULL, Transport |-> NULL, Physics |-> NULL,
               Cooker |-> NULL, Dispatcher |-> NULL, GlobalScene |-> NULL,
               CharacterManager |-> NULL, DefaultMaterial |-> NULL,
               ret |-> "true", failed |-> {}, nullDeref |-> {}]

InitializeRun(dbg, ok, crashAt) ==
  LET mk(c) == IF ok[c] THEN Obj(c) ELSE NULL
      bad(S) == {c \in S : ~ok[c]}
      r0 == [InitFields EXCEPT !.Foundation = mk("Foundation")]
  IN
  IF r0.Foundation = NULL
  THEN [r0 EXCEPT !.ret = "false", !.failed = {"Foundation"}]
  ELSE
  LET dcalls == IF dbg THEN {"PVD", "Transport"} ELSE {}
      r1 == [r0 EXCEPT !.PVD = IF dbg THEN mk("PVD") ELSE NULL,
                       !.Transport = IF dbg THEN mk("Transport") ELSE NULL,
                       !.failed = bad(dcalls),
                       !.nullDeref = bad(dcalls)]
  IN
  IF r1.nullDeref # {} /\ crashAt = 1
  THEN [r1 EXCEPT !.ret = "crash"]
  ELSE
  LET r2 == [r1 EXCEPT !.Physics = mk("Physics")] IN
  IF r2.Physics = NULL
  THEN [r2 EXCEPT !.ret = "false", !.failed = @ \cup {"Physics"}]
  ELSE
  LET r3 == [r2 EXCEPT !.Cooker = mk("Cooker")] IN
  IF r3.Cooker = NULL
  THEN [r3 EXCEPT !.ret = "false", !.failed = @ \cup {"Cooker"}]
  ELSE
  LET r4 == [r3 EXCEPT !.Dispatcher = mk("Dispatcher"),
                       !.GlobalScene = mk("GlobalScene"),
                       !.failed = @ \cup bad({"Dispatcher", "GlobalScene"}),
                       !.nullDeref = @ \cup bad({"GlobalScene"})]
  IN
  IF r4.GlobalScene = NULL /\ crashAt = 2
  THEN [r4 EXCEPT !.ret = "crash"]
  ELSE
  LET r5 == [r4 EXCEPT !.CharacterManager = mk("CharacterManager"),
                       !.failed = @ \cup bad({"CharacterManager"})]
  IN
  IF dbg /\ r5.GlobalScene = NULL /\ crashAt = 3
  THEN [r5 EXCEPT !.ret = "crash"]
  ELSE [r5 EXCEPT !.DefaultMaterial = mk("DefaultMaterial"),
                  !.failed = @ \cup bad({"DefaultMaterial"})]

Initialize(ok, crashAt) ==
  /\ phase = "constructed"
  /\ LET r == InitializeRun(debug, ok, crashAt) IN
     /\ Foundation' = r.Foundation
     /\ PVD' = r.PVD
     /\ Physics' = r.Physics
     /\ Cooker' = r.Cooker
     /\ Dispatcher' = r.Dispatcher
     /\ GlobalScene' = r.GlobalScene
     /\ CharacterManager' = r.CharacterManager
     /\ DefaultMaterial' = r.DefaultMaterial
     /\ pvdTransport' = IF r.PVD # NULL THEN r.Transport ELSE NULL
     /\ acquired' = {c \in Calls : r[c] # NULL}
     /\ phase' = CASE r.ret = "true" -> "initialized"
                   [] r.ret = "false" -> "failed"
                   [] OTHER -> "crashed"
     /\ last' = [NoCall EXCEPT !.op = "Initialize", !.ret = r.ret,
                               !.failed = r.failed, !.nullDeref = r.nullDeref]
  /\ UNCHANGED <<debug, TriangleMeshes, Characters, releaseLog, issued>>

\* ----------------------------------------------------------- ~PhysicsEngine
\* The release() calls of the destructor, in order.  transport->release()
\* through a null transport is a null dereference.
DestructorReleases ==
  (IF GlobalScene # NULL THEN <<"GlobalScene">> ELSE <<>>)
  \o (IF Dispatcher # NULL THEN <<"Dispatcher">> ELSE <<>>)
  \o (IF Physics # NULL THEN <<"Physics">> ELSE <<>>)
  \o (IF PVD # NULL
      THEN <<"PVD">> \o (IF pvdTransport # NULL THEN <<"Transport">> ELSE <<>>)
      ELSE <<>>)
  \o (IF Foundation # NULL THEN <<"Foundation">> ELSE <<>>)

Destroy(ub) ==
  /\ phase \in Alive
  /\ LET nullT == PVD # NULL /\ pvdTransport = NULL
         all == DestructorReleases
         crash == nullT /\ ub = "crash"
         cut == CHOOSE i \in 1 .. Len(all) + 1 : i = Len(all) + 1 \/ all[i] = "PVD"
     IN
     /\ releaseLog' = IF crash THEN SubSeq(all, 1, cut) ELSE all
     /\ phase' = IF crash THEN "crashed" ELSE "destroyed"
     /\ last' = [NoCall EXCEPT !.op = "Destroy",
                               !.ret = IF crash THEN "crash" ELSE "void",
                               !.nullDeref = IF nullT THEN {"Transport"} ELSE {}]
  /\ UNCHANGED <<debug, ptrVars, TriangleMeshes, Characters, issued>>

\* ----------------------------------------------------------- the tables
CRASH == <<"crash", 0>>

\* The member pointer a call dereferences, by name.
Member(c) ==
  CASE c = "Physics" -> Physics
    [] c = "Cooker" -> Cooker
    [] c = "GlobalScene" -> GlobalScene
    [] c = "DefaultMaterial" -> DefaultMaterial
    [] c = "CharacterManager" -> CharacterManager

NullOf(S) == {c \in S : Member(c) = NULL}

\* `IndexList.size() % 3 != 0` is the only validation of the index list.
IndexCountValid_NoCheck(IndexCount) == TRUE

IndexCountValid(IndexCount) == IndexCount % 3 = 0

\* `if (MeshID < 0 && MeshID >= TriangleMeshes.size())`, as written.
MeshIDRejected(MeshID) == MeshID < 0 /\ MeshID >= Len(TriangleMeshes)

\* `if (ID < 0 && ID >= Characters.size())`, as written.
CharacterIDRejected(ID) == ID < 0 /\ ID >= Len(Characters)

\* `Characters.push_back(controller)`
RegisterCharacter_Front(chars, controller) == <<controller>> \o chars

RegisterCharacter(chars, controller) == Append(chars, controller)

\* `return Characters.size() - 1`
NewCharacterHandle(chars) == Len(chars) - 1

CreatePhysicsTriangleMesh(IndexCount, createOk, cookOk, ub) ==
  /\ phase \in Used
  /\ LET rec == [NoCall EXCEPT !.op = "CreatePhysicsTriangleMesh", !.arg = IndexCount,
                               !.size = Len(TriangleMeshes)]
         nulls == NullOf({"Cooker", "Physics"})
         cooked_mesh == <<"mesh", Len(TriangleMeshes) + 1>>
     IN
     IF ~IndexCountValid(IndexCount)
     THEN /\ last' = [rec EXCEPT !.ret = "handle", !.handle = SIZE_MAX]
          /\ UNCHANGED <<phase, TriangleMeshes>>
     ELSE IF nulls # {} /\ ub = "crash"
     THEN /\ last' = [rec EXCEPT !.ret = "crash", !.nullDeref = nulls, !.cooker = 1]
          /\ phase' = "crashed"
          /\ UNCHANGED TriangleMeshes
     ELSE IF ~createOk
     THEN /\ last' = [rec EXCEPT !.ret = "handle", !.handle = SIZE_MAX,
                                 !.nullDeref = nulls, !.cooker = 1]
          /\ UNCHANGED <<phase, TriangleMeshes>>
     ELSE /\ Len(TriangleMeshes) < MaxMeshes
          /\ UNCHANGED phase
          /\ IF ~cookOk
             THEN /\ last' = [rec EXCEPT !.ret = "handle", !.handle = SIZE_MAX,
                                         !.nullDeref = nulls, !.cooker = 2]
                  /\ UNCHANGED TriangleMeshes
             ELSE /\ TriangleMeshes' = Append(TriangleMeshes, cooked_mesh)
                  /\ last' = [rec EXCEPT !.ret = "handle",
                                         !.handle = Len(TriangleMeshes') - 1,
                                         !.ptr = cooked_mesh,
                                         !.nullDeref = nulls, !.cooker = 2]
  /\ UNCHANGED <<debug, ptrVars, Characters, releaseLog, issued>>

\* An out-of-range TriangleMeshes[MeshID] is undefined: it crashes or delivers
\* some pointer, from which the SDK makes an actor or not (actorOk).
CreateStaticActor(MeshID, actorOk, ub) ==
  /\ phase \in Used
  /\ LET rec == [NoCall EXCEPT !.op = "CreateStaticActor", !.arg = MeshID,
                               !.size = Len(TriangleMeshes)]
     IN
     IF MeshIDRejected(MeshID)
     THEN /\ last' = [rec EXCEPT !.ret = "false"]
          /\ UNCHANGED phase
     ELSE
     LET oob == MeshID >= Len(TriangleMeshes)
         nulls == NullOf({"Physics", "DefaultMaterial"})
                  \cup (IF actorOk THEN NullOf({"GlobalScene"}) ELSE {})
         rec2 == [rec EXCEPT !.oob = oob, !.nullDeref = nulls]
     IN
     IF oob /\ ub = "crash"
     THEN /\ last' = [rec2 EXCEPT !.ret = "crash", !.nullDeref = {}]
          /\ phase' = "crashed"
     ELSE IF nulls # {} /\ ub = "crash"
     THEN /\ last' = [rec2 EXCEPT !.ret = "crash",
                                  !.statics = IF NullOf({"Physics", "DefaultMaterial"}) = {}
                                              THEN 1 ELSE 0]
          /\ phase' = "crashed"
     ELSE /\ last' = [rec2 EXCEPT !.ret = IF actorOk THEN "true" ELSE "false",
                                  !.statics = 1,
                                  !.sceneAdds = IF actorOk THEN 1 ELSE 0]
          /\ UNCHANGED phase
  /\ UNCHANGED <<debug, ptrVars, TriangleMeshes, Characters, releaseLog, issued>>

CreateCharacterController(ctrlOk, ub) ==
  /\ phase \in Used
  /\ LET rec == [NoCall EXCEPT !.op = "CreateCharacterController",
                               !.size = Len(Characters)]
         nulls == NullOf({"CharacterManager"})
         controller == <<"controller", Len(Characters) + 1>>
     IN
     IF nulls # {} /\ ub = "crash"
     THEN /\ last' = [rec EXCEPT !.ret = "crash", !.nullDeref = nulls]
          /\ phase' = "crashed"
          /\ UNCHANGED <<Characters, issued>>
     ELSE IF ~ctrlOk
     THEN /\ last' = [rec EXCEPT !.ret = "handle", !.handle = SIZE_MAX, !.nullDeref = nulls]
          /\ UNCHANGED <<phase, Characters, issued>>
     ELSE /\ Len(Characters) < MaxCharacters
          /\ Characters' = RegisterCharacter(Characters, controller)
          /\ last' = [rec EXCEPT !.ret = "handle",
                                 !.handle = NewCharacterHandle(Characters'),
                                 !.ptr = controller, !.nullDeref = nulls]
          /\ issued' = issued \cup {<<last'.handle, controller>>}
          /\ UNCHANGED phase
  /\ UNCHANGED <<debug, ptrVars, TriangleMeshes, releaseLog>>

\* What GetCharacter(ID) can return in the current state: a set, because an
\* out-of-range Characters[ID] is undefined.
GetCharacter(ID) ==
  IF CharacterIDRejected(ID) THEN {NULL}
  ELSE IF ID < Len(Characters) THEN {Characters[ID + 1]}
  ELSE {NULL, GARBAGE, CRASH}

GetCharacterCall(ID, result) ==
  /\ phase \in Used
  /\ result \in GetCharacter(ID)
  /\ last' = [NoCall EXCEPT !.op = "GetCharacter", !.arg = ID, !.size = Len(Characters),
                            !.ret = IF result = CRASH THEN "crash" ELSE "pointer",
                            !.ptr = result,
                            !.oob = ~CharacterIDRejected(ID) /\ ID >= Len(Characters)]
  /\ phase' = IF result = CRASH THEN "crashed" ELSE phase
  /\ UNCHANGED <<debug, ptrVars, TriangleMeshes, Characters, releaseLog, issued>>

\* MoveCharacter does not check the pointer GetCharacter returns.
MoveCharacter(ID, char_ptr, ub) ==
  /\ phase \in Used
  /\ char_ptr \in GetCharacter(ID)
  /\ LET wild == char_ptr \in {NULL, GARBAGE}
         crash == char_ptr = CRASH \/ (wild /\ ub = "crash")
     IN
     /\ last' = [NoCall EXCEPT !.op = "MoveCharacter", !.arg = ID,
                               !.size = Len(Characters),
                               !.ret = IF crash THEN "crash" ELSE "flags",
                               !.oob = ~CharacterIDRejected(ID) /\ ID >= Len(Characters),
                               !.nullDeref = IF char_ptr = NULL THEN {"char_ptr"} ELSE {}]
     /\ phase' = IF crash THEN "crashed" ELSE phase
  /\ UNCHANGED <<debug, ptrVars, TriangleMeshes, Characters, releaseLog, issued>>

\* Simulate: GlobalScene->simulate(dt); GlobalScene->fetchResults(true)
Simulate(ub) ==
  /\ phase \in Used
  /\ LET nulls == NullOf({"GlobalScene"})
         crash == nulls # {} /\ ub = "crash"
     IN
     /\ last' = [NoCall EXCEPT !.op = "Simulate", !.nullDeref = nulls,
                               !.ret = IF crash THEN "crash" ELSE "void"]
     /\ phase' = IF crash THEN "crashed" ELSE phase
  /\ UNCHANGED <<debug, ptrVars, TriangleMeshes, Characters, releaseLog, issued>>

\* --------------------------------------------------- the engine, assembled
UB == {"crash", "continue"}

ClockIdle ==
  /\ now = 0 /\ start_time = 0 /\ started = FALSE /\ ElapsedTime = [num |-> 0, den |-> 1]
  /\ steps = 0 /\ firstPoll = 0 /\ everyTick = TRUE /\ pollFreq = 0
  /\ sched = [op |-> "none", f |-> 0, cb |-> FALSE, start |-> 0, ticks |-> 0,
              refBefore |-> 0, end |-> 0, events |-> <<>>]

TerrainIdle ==
  /\ SizeX = 0 /\ SizeY = 0 /\ MinZ = 0 /\ MaxZ = 0 /\ Heightmap = <<>> /\ px_data = <<>>
  /\ tx = 0 /\ ty = 0 /\ tphase = "idle" /\ inReads = <<>> /\ outWrites = <<>>

\* A default-constructed PhysicsEngine: every pointer member is nullptr and
\* both tables are empty.
Constructed ==
  /\ phase = "constructed"
  /\ Foundation = NULL /\ PVD = NULL /\ Physics = NULL /\ Cooker = NULL
  /\ GlobalScene = NULL /\ Dispatcher = NULL /\ DefaultMaterial = NULL
  /\ CharacterManager = NULL
  /\ TriangleMeshes = <<>> /\ Characters = <<>>
  /\ pvdTransport = NULL /\ acquired = {} /\ releaseLog = <<>>
  /\ issued = {} /\ last = NoCall

Init ==
  /\ debug \in BOOLEAN
  /\ Constructed
  /\ ClockIdle
  /\ TerrainIdle

\* The inputs of Initialize: every SDK call succeeds, or exactly one fails.
Outcomes ==
  {[c \in Calls |-> c \notin F] : F \in {{}} \cup {{c} : c \in Calls}}

Next ==
  \/ /\ phase = "constructed"
     /\ \E ok \in Outcomes, crashAt \in 0 .. 3 : Initialize(ok, crashAt)
     /\ UNCHANGED <<clockVars, terrainVars>>
  \/ /\ phase \in Used
     /\ \E n \in 0 .. MaxIndexCount, createOk \in BOOLEAN, cookOk \in BOOLEAN, ub \in UB :
          CreatePhysicsTriangleMesh(n, createOk, cookOk, ub)
     /\ UNCHANGED <<clockVars, terrainVars>>
  \/ /\ phase \in Used
     /\ \E h \in Handles, actorOk \in BOOLEAN, ub \in UB :
          CreateStaticActor(h, actorOk, ub)
     /\ UNCHANGED <<clockVars, terrainVars>>
  \/ /\ phase \in Used
     /\ \E ctrlOk \in BOOLEAN, ub \in UB : CreateCharacterController(ctrlOk, ub)
     /\ UNCHANGED <<clockVars, terrainVars>>
  \/ /\ phase \in Used
     /\ \E h \in Handles : \E result \in GetCharacter(h) : GetCharacterCall(h, result)
     /\ UNCHANGED <<clockVars, terrainVars>>
  \/ /\ phase \in Used
     /\ \E h \in Handles, ub \in UB : \E p \in GetCharacter(h) : MoveCharacter(h, p, ub)
     /\ UNCHANGED <<clockVars, terrainVars>>
  \/ /\ phase \in Used
     /\ \E ub \in UB : Simulate(ub)
     /\ UNCHANGED <<clockVars, terrainVars>>
  \/ /\ phase \in Alive
     /\ \E ub \in UB : Destroy(ub)
     /\ UNCHANGED <<clockVars, terrainVars>>

Spec == Init /\ [][Next]_vars

\* ------------------------------------------------- properties of the engine
Range(seq) == {seq[i] : i \in DOMAIN seq}

\* C1: CreateStaticActor with a mesh handle at or past the end of the mesh
\* table (the failure sentinel included) returns false, does not index the
\* table, creates no static actor and adds nothing to the scene.
C1_StaticActorRejectsBadHandle ==
  (last.op = "CreateStaticActor" /\ last.arg >= last.size)
    => /\ last.ret = "false"
       /\ ~last.oob
       /\ last.statics = 0
       /\ last.sceneAdds = 0

\* C2: a call of CreatePhysicsTriangleMesh with an index list whose length is
\* not a multiple of 3 returns the failure sentinel, makes no cooker call and
\* leaves the mesh table as it was.
C2_BadIndexCountFails ==
  [][(last'.op = "CreatePhysicsTriangleMesh" /\ last'.arg % 3 # 0)
       => /\ last'.ret = "handle"
          /\ last'.handle = SIZE_MAX
          /\ last'.cooker = 0
          /\ TriangleMeshes' = TriangleMeshes]_vars

C2_Witness ==
  /\ last.op = "CreatePhysicsTriangleMesh"
  /\ last.arg % 3 # 0
  /\ last.handle = SIZE_MAX
  /\ Len(TriangleMeshes) > 0

\* C3: while the engine lives, every handle a successful
\* CreateCharacterController returned is below the size of the controller
\* table and GetCharacter returns for it the controller registered with it;
\* the handles issued are exactly the positions of the table.
C3_HandlesStayValid ==
  phase \in Used
    => /\ \A p \in issued : p[1] < Len(Characters) /\ GetCharacter(p[1]) = {p[2]}
       /\ issued = {<<i - 1, Characters[i]>> : i \in DOMAIN Characters}

C3_Witness ==
  /\ phase = "initialized"
  /\ Len(Characters) = 2
  /\ Cardinality(issued) = 2
  /\ last.op = "GetCharacter"
  /\ last.arg = 0
  /\ last.ptr = <<"controller", 1>>

\* C6: GetCharacter with an ID at or past the end of the controller table
\* returns null without indexing the table; with a smaller ID it returns the
\* entry stored there.
C6_GetCharacterBoundsChecked ==
  last.op = "GetCharacter"
    => IF last.arg >= last.size
       THEN last.ret = "pointer" /\ last.ptr = NULL /\ ~last.oob
       ELSE last.ret = "pointer" /\ last.ptr = Characters[last.arg + 1]

\* C7: Initialize returns false whenever one of the SDK construction calls it
\* made failed, returns true only when all of them succeeded, and never
\* dereferences an object that failed to be created.
C7_InitializeReportsFailure ==
  last.op = "Initialize"
    => /\ last.failed # {} => last.ret = "false"
       /\ last.ret = "true" => last.failed = {}
       /\ last.nullDeref = {}

\* The order in which the destructor is to release what it owns.
ReleaseRank(c) ==
  CASE c = "GlobalScene" -> 1
    [] c = "Dispatcher" -> 2
    [] c = "Physics" -> 3
    [] c = "PVD" -> 4
    [] c = "Transport" -> 5
    [] c = "Foundation" -> 6
    [] OTHER -> 0

\* C8: destroying the engine releases every SDK object Initialize acquired
\* exactly once, releases nothing that was not acquired, and does so in the
\* order scene, dispatcher, physics, debugger, transport, foundation.
C8_DestructorReleasesAll ==
  last.op = "Destroy"
    => /\ phase = "destroyed"
       /\ Range(releaseLog) = acquired
       /\ Len(releaseLog) = Cardinality(Range(releaseLog))
       /\ \A i, j \in DOMAIN releaseLog :
            i < j => ReleaseRank(releaseLog[i]) < ReleaseRank(releaseLog[j])

\* -------------------------------------------------------- the scheduler
\* Time is counted in ticks of the high resolution clock, TicksPerSecond to
\* the second.  A float is the exact rational [num, den]: rounding is left
\* out.
TicksPerSecond == 2
MaxTime == 12        \* the clock stops here
MaxStepTicks == 1    \* longest time a callback and a simulation step take
Freqs == {1, 2, 10}  \* the frequencies callers ask for, in Hz

\* std::deca is std::ratio<10, 1>: the period of the duration type the
\* elapsed time is converted to is ten seconds.
DecaRatio == 10

RatGeq(a, b) == a.num * b.den >= b.num * a.den
RatEq(a, b) == a.num * b.den = b.num * a.den

\* chrono::duration<float, std::deca>(d).count() of a clock difference of
\* `ticks` ticks.
DecaCount(ticks) == [num |-> ticks, den |-> DecaRatio * TicksPerSecond]

\* The same difference, in seconds.
Seconds(ticks) == [num |-> ticks, den |-> TicksPerSecond]

\* `float step_size = 1.0f / Frequency`
StepSize(Frequency) == [num |-> 1, den |-> Frequency]

\* dur is the time the callback and the simulation step take when they run.
SimulateFixedFrequency(Frequency, hasCallback, dur, ub) ==
  /\ phase \in Used
  /\ now + dur <= MaxTime
  /\ LET ref == IF started THEN start_time ELSE now
         elapsed == DecaCount(now - ref)
         due == RatGeq(elapsed, StepSize(Frequency))
         rec == [op |-> "SimulateFixedFrequency", f |-> Frequency, cb |-> hasCallback,
                 start |-> now, ticks |-> now - ref, refBefore |-> ref,
                 end |-> now, events |-> <<>>]
     IN
     /\ started' = TRUE
     /\ ElapsedTime' = elapsed
     /\ firstPoll' = IF started THEN firstPoll ELSE now
     /\ pollFreq' = IF pollFreq \in {0, Frequency} THEN Frequency ELSE -1
     /\ IF due
        THEN /\ Simulate(ub)
             /\ now' = now + dur
             /\ start_time' = IF phase' = "crashed" THEN ref ELSE now'
             /\ steps' = steps + 1
             /\ everyTick' = (everyTick /\ dur = 0)
             /\ sched' = [rec EXCEPT
                  !.end = now',
                  !.events =
                    (IF hasCallback THEN <<[ev |-> "Callback", arg |-> elapsed]>> ELSE <<>>)
                    \o <<[ev |-> "Simulate", arg |-> elapsed]>>
                    \o (IF phase' = "crashed" THEN <<>>
                        ELSE <<[ev |-> "reset", arg |-> Seconds(now')]>>)]
        ELSE /\ dur = 0
             /\ start_time' = ref
             /\ sched' = rec
             /\ UNCHANGED <<now, steps, everyTick, engineVars>>

\* The clock advances.  everyTick records that the caller polls without a gap:
\* a call of SimulateFixedFrequency started in every tick since the first
\* call, and no call took a tick or more.
Tick ==
  /\ now < MaxTime
  /\ now' = now + 1
  /\ everyTick' = (everyTick /\ (started => sched.start = now))
  /\ UNCHANGED <<start_time, started, ElapsedTime, steps, firstPoll, pollFreq, sched>>

\* The engine right after an Initialize of a release build in which every SDK
\* call succeeded.
Initialized ==
  LET r == InitializeRun(FALSE, [c \in Calls |-> TRUE], 0) IN
  /\ debug = FALSE
  /\ phase = "initialized"
  /\ Foundation = r.Foundation /\ PVD = r.PVD /\ Physics = r.Physics
  /\ Cooker = r.Cooker /\ Dispatcher = r.Dispatcher /\ GlobalScene = r.GlobalScene
  /\ CharacterManager = r.CharacterManager /\ DefaultMaterial = r.DefaultMaterial
  /\ pvdTransport = NULL
  /\ acquired = {c \in Calls : r[c] # NULL}
  /\ TriangleMeshes = <<>> /\ Characters = <<>>
  /\ releaseLog = <<>> /\ issued = {}
  /\ last = [NoCall EXCEPT !.op = "Initialize", !.ret = r.ret]

InitClock ==
  /\ Initialized
  /\ ClockIdle
  /\ TerrainIdle

NextClock ==
  \/ Tick /\ UNCHANGED <<engineVars, terrainVars>>
  \/ /\ \E f \in Freqs, cb \in BOOLEAN, dur \in 0 .. MaxStepTicks, ub \in UB :
          SimulateFixedFrequency(f, cb, dur, ub)
     /\ UNCHANGED terrainVars

SpecClock == InitClock /\ [][NextClock]_vars

\* C4: a call of SimulateFixedFrequency(f, cb) made when the time elapsed
\* since the reference timestamp is at least 1/f seconds invokes cb (when
\* present) once with that elapsed time, then advances the scene once by the
\* same elapsed time, then resets the reference timestamp to the current
\* time; made earlier it does none of these and leaves the reference alone.
C4_StepIffPeriodElapsed ==
  sched.op = "SimulateFixedFrequency"
    => LET secs == Seconds(sched.ticks)
           n == Len(sched.events)
       IN IF RatGeq(secs, StepSize(sched.f))
          THEN /\ n = (IF sched.cb THEN 3 ELSE 2)
               /\ sched.cb => /\ sched.events[1].ev = "Callback"
                              /\ RatEq(sched.events[1].arg, secs)
               /\ sched.events[n - 1].ev = "Simulate"
               /\ RatEq(sched.events[n - 1].arg, secs)
               /\ sched.events[n].ev = "reset"
               /\ start_time = sched.end
          ELSE /\ n = 0
               /\ start_time = sched.refBefore

\* C5: when SimulateFixedFrequency is polled without a gap with one
\* frequency f for T seconds (1/f a whole number of ticks), the number of
\* steps triggered is floor(T*f) give or take one, and the elapsed time a
\* triggered step reports is at least 1/f.
C5_StepCount ==
  (started /\ everyTick /\ pollFreq \in Freqs /\ TicksPerSecond % pollFreq = 0)
    => LET expected == ((now - firstPoll) * pollFreq) \div TicksPerSecond IN
       /\ steps >= expected - 1
       /\ steps <= expected + 1
       /\ (sched.op = "SimulateFixedFrequency" /\ sched.events # <<>>)
            => RatGeq(sched.events[Len(sched.events) - 1].arg, StepSize(sched.f))

\* -------------------------------------------------------- CreateTerrain
\* A height-map value is the float num/VDen with num in 0 .. VDen, MinZ and
\* MaxZ are whole numbers; a float is again the exact rational.
MaxSize == 3         \* largest SizeX and SizeY
MaxAbsZ == 1         \* MinZ and MaxZ lie in -MaxAbsZ .. MaxAbsZ
VDen == 2            \* height-map values are multiples of 1/VDen

\* `sizeof(float)`
SizeofFloat == 4

HVals == 0 .. VDen
\* What a read past the end of Heightmap delivers: a value a height-map may
\* hold, or one it may not.
Junk == {0, VDen + 1}

\* The height-maps of n entries the model feeds in: the constant ones and a
\* ramp.
Heightmaps(n) ==
  {[i \in 1 .. n |-> v] : v \in HVals} \cup {[i \in 1 .. n |-> (i - 1) % (VDen + 1)]}

\* `uint32_t out_idx = y + x * hf_desc.nbRows`, nbRows being SizeY
OutIdx(x, y) == y + x * SizeY

\* `uint32_t in_idx = x * sizeof(float) + y * SizeX`
InIdx(x, y) == x * SizeofFloat + y * SizeX

\* The conversion of the float num/den to PxI16, the type of
\* PxHeightFieldSample::height: the fraction is dropped (towards zero).
ToInt16(num, den) == IF num >= 0 THEN num \div den ELSE -((-num) \div den)

\* `(MaxZ - MinZ) * Heightmap[in_idx] + MinZ` for the value v/VDen, over VDen
Scaled(v) == (MaxZ - MinZ) * v + MinZ * VDen

ZeroSample == [height |-> 0, materialIndex0 |-> 0, materialIndex1 |-> 0]

\* One pass of the body of the conversion loop, at cell (tx, ty).
CreateTerrainStep(junk, ub) ==
  /\ tphase = "loop"
  /\ LET out_idx == OutIdx(tx, ty)
         in_idx == InIdx(tx, ty)
         inOob == in_idx >= Len(Heightmap)
         outOob == out_idx >= Len(px_data)
         v == IF inOob THEN junk ELSE Heightmap[in_idx + 1]
         last_x == tx + 1 >= SizeX
         last_y == last_x /\ ty + 1 >= SizeY
     IN
     /\ inReads' = Append(inReads, in_idx)
     /\ outWrites' = Append(outWrites, out_idx)
     /\ IF outOob \/ (inOob /\ ub = "crash")
        THEN /\ tphase' = "crashed"
             /\ phase' = "crashed"
             /\ UNCHANGED <<px_data, tx, ty>>
        ELSE /\ px_data' = [px_data EXCEPT ![out_idx + 1] =
                              [height |-> ToInt16(Scaled(v), VDen),
                               materialIndex0 |-> 0, materialIndex1 |-> 0]]
             /\ tx' = IF last_x THEN 0 ELSE tx + 1
             /\ ty' = IF last_x THEN ty + 1 ELSE ty
             /\ tphase' = IF last_y THEN "cook" ELSE "loop"
             /\ UNCHANGED phase
  /\ UNCHANGED <<SizeX, SizeY, MinZ, MaxZ, Heightmap, debug, ptrVars, TriangleMeshes,
                 Characters, releaseLog, issued, last>>

\* What follows the loop: the height field is cooked (the result is not
\* checked), the static actor is made and, when there is one, added to the
\* scene.
CreateTerrainFinish(actorOk, ub) ==
  /\ tphase = "cook"
  /\ LET nulls == NullOf({"Cooker", "Physics", "DefaultMaterial"})
                  \cup (IF actorOk THEN NullOf({"GlobalScene"}) ELSE {})
         crash == nulls # {} /\ ub = "crash"
     IN
     /\ tphase' = IF crash THEN "crashed"
                  ELSE IF actorOk THEN "returned_true" ELSE "returned_false"
     /\ phase' = IF crash THEN "crashed" ELSE phase
     /\ last' = [NoCall EXCEPT !.op = "CreateTerrain",
                               !.ret = IF crash THEN "crash"
                                       ELSE IF actorOk THEN "true" ELSE "false",
                               !.nullDeref = nulls,
                               !.cooker = 1,
                               !.statics = IF crash THEN 0 ELSE 1,
                               !.sceneAdds = IF actorOk /\ ~crash THEN 1 ELSE 0]
  /\ UNCHANGED <<SizeX, SizeY, MinZ, MaxZ, Heightmap, px_data, tx, ty, inReads, outWrites,
                 debug, ptrVars, TriangleMeshes, Characters, releaseLog, issued>>

\* CreateTerrain has been called on an initialized engine with a height-map
\* of SizeX*SizeY entries and stands before its loop: px_data has one
\* value-initialized sample for every entry of the height-map.
InitTerrain ==
  /\ Initialized
  /\ ClockIdle
  /\ SizeX \in 1 .. MaxSize
  /\ SizeY \in 1 .. MaxSize
  /\ MinZ \in -MaxAbsZ .. MaxAbsZ
  /\ MaxZ \in -MaxAbsZ .. MaxAbsZ
  /\ MinZ < MaxZ
  /\ Heightmap \in Heightmaps(SizeX * SizeY)
  /\ px_data = [i \in 1 .. Len(Heightmap) |-> ZeroSample]
  /\ tx = 0 /\ ty = 0 /\ tphase = "loop"
  /\ inReads = <<>> /\ outWrites = <<>>

NextTerrain ==
  \/ /\ \E junk \in Junk, ub \in UB : CreateTerrainStep(junk, ub)
     /\ UNCHANGED clockVars
  \/ /\ \E actorOk \in BOOLEAN, ub \in UB : CreateTerrainFinish(actorOk, ub)
     /\ UNCHANGED clockVars

SpecTerrain == InitTerrain /\ [][NextTerrain]_vars

Converted == tphase \in {"cook", "returned_true", "returned_false"}

NoDuplicates(seq) == \A i, j \in DOMAIN seq : i # j => seq[i] # seq[j]

\* C9: for a height-map whose SizeX*SizeY entries all hold the same value v,
\* the buffer handed to the height-field cooker has SizeX*SizeY samples and
\* every one of them has the height (MaxZ-MinZ)*v+MinZ.  A sample's height is
\* a 16-bit integer: the value is compared as the assignment to that type
\* stores it.
C9_ConstantMapConverts ==
  (Converted /\ \A i \in DOMAIN Heightmap : Heightmap[i] = Heightmap[1])
    => /\ Len(px_data) = SizeX * SizeY
       /\ \A i \in DOMAIN px_data :
            px_data[i].height = ToInt16(Scaled(Heightmap[1]), VDen)

\* C10: every input index and every output index the conversion loop
\* computes lies in [0, SizeX*SizeY), and no input index and no output index
\* is computed for two cells.
C10_IndicesInRangeOneToOne ==
  /\ \A i \in Range(inReads) : 0 <= i /\ i < SizeX * SizeY
  /\ \A i \in Range(outWrites) : 0 <= i /\ i < SizeX * SizeY
  /\ NoDuplicates(inReads)
  /\ NoDuplicates(outWrites)

====
